---- MODULE Spec2Model ----
(***************************************************************************)
(* Model of the boxplot plugin's data-to-statistics pipeline, in its two   *)
(* builds: the main plugin (_processRawData / _calculateBoxplotStats) and  *)
(* the React build (draw / renderBoxplot / calculateBoxplotStats).         *)
(*                                                                         *)
(* Numbers.  Cell values are integers.  Quartiles interpolate at ranks     *)
(* k*(n-1)/4 and fences add 1.5*iqr, so every statistic is a multiple of   *)
(* 1/8: q1, median, q3, min, max and the fences are held in EIGHTHS (the   *)
(* field min of a stats record is 8 times the JavaScript number).  The     *)
(* retained values and the outliers are held as plain integers.  The mean  *)
(* is held as the pair sum / count.                                        *)
(***************************************************************************)
EXTENDS Integers, Sequences, FiniteSets, TLC

(***************************************************************************)
(* Bounds of the checked instances.                                        *)
(***************************************************************************)
MaxCols == 3
MaxRows == 3
MaxCell == 5
MaxVal == 2

(***************************************************************************)
(* JavaScript values, as they occur in the cells of a row.                 *)
(* t is the typeof tag; n carries a number or a boolean (1/0), s a string. *)
(***************************************************************************)
Undefined == [t |-> "undefined", n |-> 0, s |-> ""]
Null == [t |-> "null", n |-> 0, s |-> ""]
Num(i) == [t |-> "number", n |-> i, s |-> ""]
Str(x) == [t |-> "string", n |-> 0, s |-> x]
Bool(b) == [t |-> "boolean", n |-> IF b THEN 1 ELSE 0, s |-> ""]
NaN == [t |-> "NaN", n |-> 0, s |-> ""]

Digits == <<"0", "1", "2", "3", "4", "5", "6", "7", "8", "9">>

RECURSIVE NumberToString(_)
NumberToString(i) ==
    IF i < 0 THEN "-" \o NumberToString(-i)
    ELSE IF i < 10 THEN Digits[i + 1]
    ELSE NumberToString(i \div 10) \o Digits[(i % 10) + 1]

\* String(v): the string form of a value.
StringOf(v) ==
    CASE v.t = "undefined" -> "undefined"
      [] v.t = "null" -> "null"
      [] v.t = "boolean" -> (IF v.n = 1 THEN "true" ELSE "false")
      [] v.t = "number" -> NumberToString(v.n)
      [] v.t = "NaN" -> "NaN"
      [] OTHER -> v.s

\* The numeric strings of the model: the decimal forms of small integers.
NumericRange == -9 .. 9

\* Number(v), the unary plus of `+d[metricCol]`: a number value or NaN.
ToNumber(v) ==
    CASE v.t = "undefined" -> NaN
      [] v.t = "null" -> Num(0)
      [] v.t = "boolean" -> Num(v.n)
      [] v.t = "number" -> v
      [] v.t = "NaN" -> NaN
      [] OTHER ->
           IF v.s = "" THEN Num(0)
           ELSE IF \E i \in NumericRange : NumberToString(i) = v.s
                THEN Num(CHOOSE i \in NumericRange : NumberToString(i) = v.s)
                ELSE NaN

\* Boolean(v): the truthiness tested by `a || b`.
ToBoolean(v) ==
    CASE v.t = "undefined" -> FALSE
      [] v.t = "null" -> FALSE
      [] v.t = "boolean" -> v.n = 1
      [] v.t = "number" -> v.n # 0
      [] v.t = "NaN" -> FALSE
      [] OTHER -> v.s # ""

isNaN(v) == v.t = "NaN"

(***************************************************************************)
(* Sequence helpers (Array.prototype.map / filter / sort).                 *)
(***************************************************************************)
RECURSIVE Insert(_, _)
Insert(x, sorted) ==
    IF sorted = <<>> THEN <<x>>
    ELSE IF x < Head(sorted) THEN <<x>> \o sorted
    ELSE <<Head(sorted)>> \o Insert(x, Tail(sorted))

\* values.sort(d3.ascending) on a sequence of numbers
RECURSIVE SortAscending(_)
SortAscending(xs) ==
    IF xs = <<>> THEN <<>> ELSE Insert(Head(xs), SortAscending(Tail(xs)))

RECURSIVE Sum(_)
Sum(xs) == IF xs = <<>> THEN 0 ELSE Head(xs) + Sum(Tail(xs))

(***************************************************************************)
(* d3.quantile(sorted, k/4), in eighths: the value at continuous rank      *)
(* i = (n-1)*k/4, value0 + (value1 - value0) * (i - floor(i)).             *)
(***************************************************************************)
\* Variant: the value at the rank rounded down, without interpolation.
quantile_lowerRank(sorted, k) ==
    8 * sorted[((Len(sorted) - 1) * k) \div 4 + 1]

quantile(sorted, k) ==
    LET n == Len(sorted)
        i0 == ((n - 1) * k) \div 4
        rem == ((n - 1) * k) % 4
    IN  IF n < 2 THEN 8 * sorted[1]
        ELSE 8 * sorted[i0 + 1] + 2 * rem * (sorted[i0 + 2] - sorted[i0 + 1])

lowerFenceOf(q1, q3) == q1 - (3 * (q3 - q1)) \div 2

\* Variant: the interquartile term is subtracted.
upperFenceOf_minus(q1, q3) == q3 - (3 * (q3 - q1)) \div 2

upperFenceOf(q1, q3) == q3 + (3 * (q3 - q1)) \div 2

\* Variant: a value equal to a fence counts as an outlier.
outliersOf_inclusive(sorted, lowerFence, upperFence) ==
    SelectSeq(sorted, LAMBDA v : 8 * v <= lowerFence \/ 8 * v >= upperFence)

\* sorted.filter(v => v < lowerFence || v > upperFence)
outliersOf(sorted, lowerFence, upperFence) ==
    SelectSeq(sorted, LAMBDA v : 8 * v < lowerFence \/ 8 * v > upperFence)

\* sorted.filter(v => v >= lowerFence && v <= upperFence)
nonOutliersOf(sorted, lowerFence, upperFence) ==
    SelectSeq(sorted, LAMBDA v : 8 * v >= lowerFence /\ 8 * v <= upperFence)

(***************************************************************************)
(* Main plugin: _calculateBoxplotStats.                                    *)
(* `sortedValues.find(v => v >= lowerFence) || sortedValues[0]`: find      *)
(* gives the first match or undefined, and || falls through to the         *)
(* absolute extreme when what find gave is falsy (undefined, or 0).        *)
(***************************************************************************)
findMin(sorted, lowerFence) ==
    LET hits == SelectSeq(sorted, LAMBDA v : 8 * v >= lowerFence)
    IN  IF hits = <<>> THEN Undefined ELSE Num(hits[1])

findMax(sorted, upperFence) ==
    LET hits == SelectSeq(sorted, LAMBDA v : 8 * v <= upperFence)
    IN  IF hits = <<>> THEN Undefined ELSE Num(hits[Len(hits)])

\* a || b on a found value and a fallback number
OrElse(found, fallback) == IF ToBoolean(found) THEN found.n ELSE fallback

_calculateBoxplotStats(values) ==
    LET sortedValues == SortAscending(values)
        n == Len(sortedValues)
        q1 == quantile(sortedValues, 1)
        median == quantile(sortedValues, 2)
        q3 == quantile(sortedValues, 3)
        lowerFence == lowerFenceOf(q1, q3)
        upperFence == upperFenceOf(q1, q3)
    IN  [min |-> 8 * OrElse(findMin(sortedValues, lowerFence), sortedValues[1]),
         max |-> 8 * OrElse(findMax(sortedValues, upperFence), sortedValues[n]),
         q1 |-> q1, median |-> median, q3 |-> q3,
         meanSum |-> Sum(sortedValues),
         outliers |-> outliersOf(sortedValues, lowerFence, upperFence),
         count |-> n]

(***************************************************************************)
(* React build: calculateBoxplotStats.                                     *)
(***************************************************************************)
calculateBoxplotStats(values) ==
    LET sorted == SortAscending(values)
        n == Len(sorted)
        q1 == quantile(sorted, 1)
        median == quantile(sorted, 2)
        q3 == quantile(sorted, 3)
        lowerFence == lowerFenceOf(q1, q3)
        upperFence == upperFenceOf(q1, q3)
        outliers == outliersOf(sorted, lowerFence, upperFence)
        nonOutliers == nonOutliersOf(sorted, lowerFence, upperFence)
    IN  [min |-> 8 * (IF Len(nonOutliers) > 0 THEN nonOutliers[1] ELSE sorted[1]),
         max |-> 8 * (IF Len(nonOutliers) > 0 THEN nonOutliers[Len(nonOutliers)]
                                              ELSE sorted[n]),
         q1 |-> q1, median |-> median, q3 |-> q3,
         meanSum |-> Sum(sorted),
         outliers |-> outliers,
         count |-> n]

(***************************************************************************)
(* Rows, schema and configuration.                                         *)
(* A row and a schema are functions on the set of keys they hold; a key    *)
(* that is not held reads as undefined.  A config carries the set `has` of *)
(* the fields that are present; an absent field reads as undefined.        *)
(***************************************************************************)
Field(row, col) == IF col \in DOMAIN row THEN row[col] ELSE Undefined

SchemaType(schema, col) == IF col \in DOMAIN schema THEN schema[col] ELSE "undefined"

\* Variant: an absent columns field stands for every column of the schema.
configColumnsOf_absentIsAll(config) ==
    IF "columns" \in config.has THEN config.columns ELSE <<"g", "h", "x", "y">>

\* config.columns || []
configColumnsOf(config) ==
    IF "columns" \in config.has THEN config.columns ELSE <<>>

\* config.group_by && config.group_by.length > 0
hasGroupBy(config) ==
    "group_by" \in config.has /\ Len(config.group_by) > 0

(***************************************************************************)
(* Classifier, main plugin (_processRawData, first half).                  *)
(***************************************************************************)
\* Variant: only float columns are metrics.
numericColumnsOf_floatOnly(schema, configColumns) ==
    SelectSeq(configColumns, LAMBDA col : SchemaType(schema, col) = "float")

numericColumnsOf(schema, configColumns) ==
    SelectSeq(configColumns,
              LAMBDA col : SchemaType(schema, col) = "float"
                           \/ SchemaType(schema, col) = "integer")

categoricalColumnsOf(schema, configColumns) ==
    SelectSeq(configColumns,
              LAMBDA col : ~(SchemaType(schema, col) = "float"
                             \/ SchemaType(schema, col) = "integer")
                           /\ SchemaType(schema, col) = "string")

\* Variant: a single categorical column is preferred to config.group_by.
groupByColumnOf_categoricalFirst(config, categoricalColumns) ==
    IF Len(categoricalColumns) = 1
    THEN [col |-> Str(categoricalColumns[1]), strategy |-> 2, warned |-> FALSE]
    ELSE IF hasGroupBy(config)
    THEN [col |-> Str(config.group_by[1]), strategy |-> 1, warned |-> FALSE]
    ELSE IF Len(categoricalColumns) > 1
    THEN [col |-> Str(categoricalColumns[1]), strategy |-> 3, warned |-> TRUE]
    ELSE [col |-> Null, strategy |-> 4, warned |-> FALSE]

\* The four strategies; col is null when no grouping column is resolved.
groupByColumnOf(config, categoricalColumns) ==
    IF hasGroupBy(config)
    THEN [col |-> Str(config.group_by[1]), strategy |-> 1, warned |-> FALSE]
    ELSE IF Len(categoricalColumns) = 1
    THEN [col |-> Str(categoricalColumns[1]), strategy |-> 2, warned |-> FALSE]
    ELSE IF Len(categoricalColumns) > 1
    THEN [col |-> Str(categoricalColumns[1]), strategy |-> 3, warned |-> TRUE]
    ELSE [col |-> Null, strategy |-> 4, warned |-> FALSE]

(***************************************************************************)
(* Classifier, React build (draw).                                         *)
(***************************************************************************)
react_numericColumnsOf(schema, columns) ==
    SelectSeq(columns,
              LAMBDA col : SchemaType(schema, col) = "integer"
                           \/ SchemaType(schema, col) = "float")

react_categoricalColumnsOf(schema, columns) ==
    SelectSeq(columns,
              LAMBDA col : SchemaType(schema, col) = "string"
                           \/ SchemaType(schema, col) = "date")

react_groupByColumnOf(config, categoricalColumns) ==
    IF hasGroupBy(config)
    THEN [col |-> Str(config.group_by[1]), strategy |-> 1, warned |-> FALSE]
    ELSE IF Len(categoricalColumns) = 1
    THEN [col |-> Str(categoricalColumns[1]), strategy |-> 2, warned |-> FALSE]
    ELSE IF Len(categoricalColumns) > 1
    THEN [col |-> Str(categoricalColumns[1]), strategy |-> 3, warned |-> TRUE]
    ELSE [col |-> Null, strategy |-> 4, warned |-> FALSE]

(***************************************************************************)
(* d3.group(data, key): a Map from key to the rows with that key, in the   *)
(* order in which each key first occurs.  Keys are compared as Map keys    *)
(* (same type and same value), not as strings.                             *)
(***************************************************************************)
RECURSIVE KeyIndex(_, _, _)
KeyIndex(groups, key, i) ==
    IF i > Len(groups) THEN 0
    ELSE IF groups[i].key = key THEN i
    ELSE KeyIndex(groups, key, i + 1)

\* Variant: a key met for the first time is put in front of the older keys.
RECURSIVE GroupInto_newestFirst(_, _, _, _)
GroupInto_newestFirst(groups, keys, data, i) ==
    IF i > Len(data) THEN groups
    ELSE LET at == KeyIndex(groups, keys[i], 1)
         IN  IF at = 0
             THEN GroupInto_newestFirst(
                      <<[key |-> keys[i], rows |-> <<data[i]>>]>> \o groups,
                      keys, data, i + 1)
             ELSE GroupInto_newestFirst(
                      [groups EXCEPT ![at].rows = Append(@, data[i])],
                      keys, data, i + 1)

RECURSIVE GroupInto(_, _, _, _)
GroupInto(groups, keys, data, i) ==
    IF i > Len(data) THEN groups
    ELSE LET at == KeyIndex(groups, keys[i], 1)
         IN  IF at = 0
             THEN GroupInto(Append(groups, [key |-> keys[i], rows |-> <<data[i]>>]),
                            keys, data, i + 1)
             ELSE GroupInto([groups EXCEPT ![at].rows = Append(@, data[i])],
                            keys, data, i + 1)

\* d => d[groupByColumn] || 'Unknown'
groupKeyOf(row, groupByColumn) ==
    IF ToBoolean(Field(row, groupByColumn)) THEN Field(row, groupByColumn)
    ELSE Str("Unknown")

\* d => d[groupByColumn]
react_groupKeyOf(row, groupByColumn) == Field(row, groupByColumn)

groupsOf(data, groupByColumn) ==
    GroupInto(<<>>, [i \in 1 .. Len(data) |-> groupKeyOf(data[i], groupByColumn)],
              data, 1)

react_groupsOf(data, groupByColumn) ==
    GroupInto(<<>>, [i \in 1 .. Len(data) |-> react_groupKeyOf(data[i], groupByColumn)],
              data, 1)

(***************************************************************************)
(* The values of one cell: map(d => +d[metric]).filter(...).sort(...)      *)
(***************************************************************************)
\* v => !isNaN(v) && v !== null && v !== undefined
retained(v) == ~isNaN(v) /\ v # Null /\ v # Undefined

\* v => !isNaN(v)
react_retained(v) == ~isNaN(v)

RECURSIVE SelectRetained(_, _)
SelectRetained(vs, main) ==
    IF vs = <<>> THEN <<>>
    ELSE (IF (IF main THEN retained(Head(vs)) ELSE react_retained(Head(vs)))
          THEN <<Head(vs).n>> ELSE <<>>)
         \o SelectRetained(Tail(vs), main)

\* Variant: the retained values are left in row order.
valuesOf_unsorted(groupData, metricCol) ==
    SelectRetained(
        [i \in 1 .. Len(groupData) |-> ToNumber(Field(groupData[i], metricCol))],
        TRUE)

valuesOf(groupData, metricCol) ==
    SortAscending(SelectRetained(
        [i \in 1 .. Len(groupData) |-> ToNumber(Field(groupData[i], metricCol))],
        TRUE))

react_valuesOf(values, metric) ==
    SortAscending(SelectRetained(
        [i \in 1 .. Len(values) |-> ToNumber(Field(values[i], metric))],
        FALSE))

(***************************************************************************)
(* Aggregator: one record per (partition, metric) cell with a value.       *)
(* The React build names the key field `group`; it is held as groupKey.    *)
(***************************************************************************)
cellOf(groupKey, groupData, metricCol) ==
    LET values == valuesOf(groupData, metricCol)
    IN  IF Len(values) > 0
        THEN <<[groupKey |-> groupKey, metric |-> metricCol,
                values |-> values, stats |-> _calculateBoxplotStats(values)]>>
        ELSE <<>>

react_cellOf(group, values, metric) ==
    LET metricValues == react_valuesOf(values, metric)
    IN  IF Len(metricValues) > 0
        THEN <<[groupKey |-> group, metric |-> metric,
                values |-> metricValues,
                stats |-> calculateBoxplotStats(metricValues)]>>
        ELSE <<>>

\* numericColumns.forEach((metricCol, metricIndex) => ...) within one group
RECURSIVE ForEachMetric(_, _, _, _, _)
ForEachMetric(groupKey, groupData, metricColumns, i, main) ==
    IF i > Len(metricColumns) THEN <<>>
    ELSE (IF main THEN cellOf(groupKey, groupData, metricColumns[i])
                  ELSE react_cellOf(groupKey, groupData, metricColumns[i]))
         \o ForEachMetric(groupKey, groupData, metricColumns, i + 1, main)

\* for (const [groupKey, groupData] of groups) ...
RECURSIVE ForEachGroup(_, _, _, _)
ForEachGroup(groups, metricColumns, g, main) ==
    IF g > Len(groups) THEN <<>>
    ELSE ForEachMetric(groups[g].key, groups[g].rows, metricColumns, 1, main)
         \o ForEachGroup(groups, metricColumns, g + 1, main)

\* Variant: the loop over the metrics ends after its first turn.
ForEachMetricUngrouped_firstOnly(data, metricColumns, i, main) ==
    IF i > Len(metricColumns) THEN <<>>
    ELSE IF main THEN cellOf(Str(metricColumns[i]), data, metricColumns[i])
    ELSE react_cellOf(Str(metricColumns[i]), data, metricColumns[i])

\* the else branch: each metric over the whole data, keyed by its own name
RECURSIVE ForEachMetricUngrouped(_, _, _, _)
ForEachMetricUngrouped(data, metricColumns, i, main) ==
    IF i > Len(metricColumns) THEN <<>>
    ELSE (IF main THEN cellOf(Str(metricColumns[i]), data, metricColumns[i])
                  ELSE react_cellOf(Str(metricColumns[i]), data, metricColumns[i]))
         \o ForEachMetricUngrouped(data, metricColumns, i + 1, main)

\* _processRawData, second half: if (groupByColumn) {...} else {...}
resultOf(data, groupByColumn, numericColumns) ==
    IF ToBoolean(groupByColumn)
    THEN ForEachGroup(groupsOf(data, groupByColumn.s), numericColumns, 1, TRUE)
    ELSE ForEachMetricUngrouped(data, numericColumns, 1, TRUE)

\* renderBoxplot: if (groupByColumn) {...} else {...}
boxplotDataOf(data, groupByColumn, metricColumns) ==
    IF ToBoolean(groupByColumn)
    THEN ForEachGroup(react_groupsOf(data, groupByColumn.s), metricColumns, 1, FALSE)
    ELSE ForEachMetricUngrouped(data, metricColumns, 1, FALSE)

NoDecision ==
    [numericColumns |-> <<>>, categoricalColumns |-> <<>>,
     groupByColumn |-> Null, metricColumns |-> <<>>,
     strategy |-> 0, warnings |-> <<>>]

NoDataMessage == "No data available for boxplot"
NoNumericMessage == "No numeric data available for boxplot"
NoValidMessage == "No valid data for boxplot"
Chart == "<svg>"

(***************************************************************************)
(* Main plugin: _processRawData(data, config, schema), giving the          *)
(* classifier's locals and the returned records.                           *)
(***************************************************************************)
_processRawData(data, config, schema) ==
    LET configColumns == configColumnsOf(config)
        numericColumns == numericColumnsOf(schema, configColumns)
        categoricalColumns == categoricalColumnsOf(schema, configColumns)
        grouping == groupByColumnOf(config, categoricalColumns)
    IN  IF Len(numericColumns) = 0
        THEN [decision |-> [NoDecision EXCEPT
                              !.numericColumns = numericColumns,
                              !.categoricalColumns = categoricalColumns,
                              !.warnings = <<"No numeric columns">>],
              result |-> <<>>]
        ELSE [decision |-> [numericColumns |-> numericColumns,
                            categoricalColumns |-> categoricalColumns,
                            groupByColumn |-> grouping.col,
                            metricColumns |-> numericColumns,
                            strategy |-> grouping.strategy,
                            warnings |-> IF grouping.warned
                                         THEN <<"Multiple categorical columns">>
                                         ELSE <<>>],
              result |-> resultOf(data, grouping.col, numericColumns)]

\* _processDataForBoxplot(data, config, schema)
processedDataOf(data, config, schema) ==
    IF Len(data) = 0 THEN [decision |-> NoDecision, result |-> <<>>]
    ELSE _processRawData(data, config, schema)

\* what _renderBoxplot leaves in the container for the processed data
renderedOf(processedData) ==
    IF Len(processedData) = 0 THEN NoNumericMessage ELSE Chart

(***************************************************************************)
(* React build: the part of draw between the row fetch and the call of     *)
(* renderBoxplot.  message is what draw wrote into the container before    *)
(* returning early, "" when it went on to renderBoxplot.                   *)
(***************************************************************************)
react_decisionOf(rawData, config, schema) ==
    IF Len(rawData) = 0
    THEN [decision |-> NoDecision, message |-> NoDataMessage]
    ELSE LET columns == configColumnsOf(config)
             categoricalColumns == react_categoricalColumnsOf(schema, columns)
             numericColumns == react_numericColumnsOf(schema, columns)
             grouping == react_groupByColumnOf(config, categoricalColumns)
         IN  IF Len(numericColumns) = 0
             THEN [decision |-> [NoDecision EXCEPT
                                   !.numericColumns = numericColumns,
                                   !.categoricalColumns = categoricalColumns],
                   message |-> NoNumericMessage]
             ELSE [decision |-> [numericColumns |-> numericColumns,
                                 categoricalColumns |-> categoricalColumns,
                                 groupByColumn |-> grouping.col,
                                 metricColumns |-> numericColumns,
                                 strategy |-> grouping.strategy,
                                 warnings |-> IF grouping.warned
                                              THEN <<"Multiple categorical columns">>
                                              ELSE <<>>],
                   message |-> ""]

\* what renderBoxplot leaves in the container for the aggregated data
react_renderedOf(boxplotData) ==
    IF Len(boxplotData) = 0 THEN NoValidMessage ELSE Chart

(***************************************************************************)
(* State.                                                                  *)
(***************************************************************************)
VARIABLES
    build,      \* "main" or "react": which build runs
    schema,     \* view.schema()
    config,     \* view.get_config()
    rows,       \* the fetched row objects
    pc,         \* position of the draw in the pipeline
    decision,   \* the classifier's locals
    result,     \* processedData / boxplotData
    container,  \* what the container shows
    draws,      \* the draw calls issued so far, in order of issue
    _container, \* this._container: 0 for null, else the number of a child
    children,   \* how many container divs the plugin element has as children
    innerHTML,  \* innerHTML[c]: what container c holds
    tempViews,  \* temporary raw views created and not deleted
    resizes,    \* resize() calls made by the host
    sample,     \* the values handed to the statistics functions
    computed    \* what each build's statistics function returned for them

pipelineVars == <<build, schema, config, rows, pc, decision, result, container>>

lifecycleVars == <<draws, _container, children, innerHTML, tempViews, resizes>>

statsVars == <<sample, computed>>

vars == <<build, schema, config, rows, pc, decision, result, container,
          draws, _container, children, innerHTML, tempViews, resizes,
          sample, computed>>

(***************************************************************************)
(* Main plugin.  _renderBoxplot calls _processDataForBoxplot, which        *)
(* returns [] for no rows and otherwise runs _processRawData; the          *)
(* container then shows the message or the chart.                          *)
(***************************************************************************)
_processDataForBoxplot ==
    /\ pc = "start"
    /\ build = "main"
    /\ pc' = "processed"
    /\ LET processedData == processedDataOf(rows, config, schema)
       IN  /\ result' = processedData.result
           /\ decision' = processedData.decision
    /\ UNCHANGED <<build, schema, config, rows, container>>
    /\ UNCHANGED lifecycleVars
    /\ UNCHANGED statsVars

_renderBoxplot ==
    /\ pc = "processed"
    /\ build = "main"
    /\ pc' = "done"
    /\ container' = renderedOf(result)
    /\ UNCHANGED <<build, schema, config, rows, decision, result>>
    /\ UNCHANGED lifecycleVars
    /\ UNCHANGED statsVars

(***************************************************************************)
(* React build.  draw classifies and resolves the grouping column;         *)
(* renderBoxplot aggregates and renders.                                   *)
(***************************************************************************)
react_draw ==
    /\ pc = "start"
    /\ build = "react"
    /\ LET classified == react_decisionOf(rows, config, schema)
       IN  /\ decision' = classified.decision
           /\ container' = classified.message
           /\ pc' = IF classified.message = "" THEN "classified" ELSE "done"
    /\ UNCHANGED <<build, schema, config, rows, result>>
    /\ UNCHANGED lifecycleVars
    /\ UNCHANGED statsVars

renderBoxplot ==
    /\ pc = "classified"
    /\ build = "react"
    /\ pc' = "done"
    /\ LET boxplotData == boxplotDataOf(rows, decision.groupByColumn,
                                        decision.metricColumns)
       IN  /\ result' = boxplotData
           /\ container' = react_renderedOf(boxplotData)
    /\ UNCHANGED <<build, schema, config, rows, decision>>
    /\ UNCHANGED lifecycleVars
    /\ UNCHANGED statsVars

(***************************************************************************)
(* Inputs.  Four families of (schema, config, rows), each run under both   *)
(* builds:                                                                 *)
(*   classify  every column list up to MaxCols over four columns, with     *)
(*             the declared types and group_by varied, on two fixed rows   *)
(*   keys      up to MaxRows rows whose grouping value ranges over the     *)
(*             JavaScript values that group keys are made of               *)
(*   metrics   up to MaxRows rows whose metric value ranges over the       *)
(*             values that numeric coercion distinguishes                  *)
(*   cells     up to MaxCell rows of one group with integers               *)
(*             -MaxVal..MaxVal, so that one cell holds enough values for   *)
(*             quartiles, fences and extremes to differ                    *)
(***************************************************************************)
Cols == {"g", "h", "x", "y"}

SeqsUpTo(S, n) == UNION {[1 .. k -> S] : k \in 0 .. n}

\* {columns: c, group_by: gb}, and the same with a field left out
Config(c, gb) == [columns |-> c, group_by |-> gb, has |-> {"columns", "group_by"}]
ConfigNoGroupBy(c) == [columns |-> c, group_by |-> <<>>, has |-> {"columns"}]
ConfigNoColumns(gb) == [columns |-> <<>>, group_by |-> gb, has |-> {"group_by"}]

Configs(colSeqs, groupBys) ==
    {Config(c, gb) : c \in colSeqs, gb \in groupBys}
    \cup {ConfigNoGroupBy(c) : c \in colSeqs}
    \cup {ConfigNoColumns(gb) : gb \in groupBys}
    \cup {[columns |-> <<>>, group_by |-> <<>>, has |-> {}]}

GTypes == {"string", "date", "integer", "float", "boolean", "other", "datetime"}
HTypes == {"string", "date", "boolean"}

ClassifySchemas ==
    {[g |-> gt, h |-> ht, x |-> "float", y |-> "integer"] : gt \in GTypes, ht \in HTypes}
    \cup {[h |-> ht, x |-> "float", y |-> "integer"] : ht \in HTypes}

ClassifyGroupBys == {<<>>, <<"g">>, <<"h">>, <<"x">>, <<"h", "g">>}

ClassifyRows ==
    << [g |-> Str("a"), h |-> Str("p"), x |-> Num(1), y |-> Num(3)],
       [g |-> Str("b"), h |-> Str("p"), x |-> Num(2), y |-> Num(3)],
       [g |-> Str("a"), h |-> Str("q"), x |-> Num(2), y |-> Num(4)] >>

PlainSchema == [g |-> "string", x |-> "float", y |-> "integer"]

KeyValues ==
    {Null, Num(0), Num(1), Bool(FALSE), Str(""), Str("a"), Str("1")}

KeyRowTypes ==
    {[g |-> k, x |-> Num(1)] : k \in KeyValues} \cup {[x |-> Num(1)]}
    \cup {[g |-> k] : k \in {Null, Str("a")}}

MetricValues ==
    {Null, Str("abc"), Str(""), Str("2"), Num(1), Bool(TRUE)}

MetricRowTypes ==
    {[g |-> Str(k), x |-> v, y |-> Num(3)] : k \in {"a", "b"}, v \in MetricValues}
    \cup {[g |-> Str(k), y |-> Num(3)] : k \in {"a", "b"}}

CellRowTypes ==
    {[g |-> Str("a"), x |-> Num(v)] : v \in -MaxVal .. MaxVal}

InitClassify ==
    /\ schema \in ClassifySchemas
    /\ config \in Configs(SeqsUpTo(Cols, MaxCols), ClassifyGroupBys)
    /\ rows = ClassifyRows

InitKeys ==
    /\ schema = PlainSchema
    /\ config \in {ConfigNoGroupBy(<<"g", "x">>), Config(<<"x">>, <<"g">>)}
    /\ rows \in SeqsUpTo(KeyRowTypes, MaxRows)

InitMetrics ==
    /\ schema = PlainSchema
    /\ config \in {ConfigNoGroupBy(<<"g", "x", "y">>), Config(<<"y", "x">>, <<>>)}
    /\ rows \in SeqsUpTo(MetricRowTypes, MaxRows)

InitCells ==
    /\ schema = PlainSchema
    /\ config \in {ConfigNoGroupBy(<<"g", "x">>), ConfigNoGroupBy(<<"x">>)}
    /\ rows \in SeqsUpTo(CellRowTypes, MaxCell)

\* a stats record that stands for "not called yet"
NoStats ==
    [min |-> 0, max |-> 0, q1 |-> 0, median |-> 0, q3 |-> 0, meanSum |-> 0,
     outliers |-> <<>>, count |-> 0]

\* no statistics function has been called
NotCalculated ==
    /\ sample = <<>>
    /\ computed = [main |-> NoStats, react |-> NoStats]

\* the plugin as its constructor leaves it: no container, no draw issued
Constructed ==
    /\ draws = <<>>
    /\ _container = 0
    /\ children = 0
    /\ innerHTML = <<>>
    /\ tempViews = 0
    /\ resizes = 0

Init ==
    /\ build \in {"main", "react"}
    /\ InitClassify \/ InitKeys \/ InitMetrics \/ InitCells
    /\ pc = "start"
    /\ decision = NoDecision
    /\ result = <<>>
    /\ container = ""
    /\ Constructed
    /\ NotCalculated

Next ==
    \/ _processDataForBoxplot
    \/ _renderBoxplot
    \/ react_draw
    \/ renderBoxplot

Spec == Init /\ [][Next]_vars

TypeOK ==
    /\ build \in {"main", "react"}
    /\ pc \in {"start", "processed", "classified", "done"}
    /\ container \in {"", NoDataMessage, NoNumericMessage, NoValidMessage, Chart}
    /\ decision.strategy \in 0 .. 4

(***************************************************************************)
(* The plugin's lifecycle.  The host calls draw(view), update(view),       *)
(* clear() and delete() at any time; a draw is suspended at each await     *)
(* (get_config, schema, table.view, the temporary view's to_json and       *)
(* delete, view.to_json) and resumes when the awaited promise resolves or  *)
(* rejects, so draws interleave at those points and nowhere else: the code *)
(* between two awaits, rendering included, runs to completion.             *)
(***************************************************************************)
MaxDraws == 2
MaxResizes == 1

\* The views the host draws.  "pivot" is a view of a table grouped by g:
\* its to_json gives aggregated rows, a total and one per group, and the
\* table gives the raw rows.  "bare" is an unpivoted view that exposes no
\* table and lists no numeric column.
Views == {"pivot", "bare"}

TableRows ==
    << [g |-> Str("a"), x |-> Num(1)],
       [g |-> Str("a"), x |-> Num(2)],
       [g |-> Str("b"), x |-> Num(5)] >>

PivotRows == << [x |-> Num(8)], [x |-> Num(3)], [x |-> Num(5)] >>

\* view.schema()
ViewSchema(v) == [g |-> "string", x |-> "float"]

\* view.get_config()
ViewConfig(v) ==
    IF v = "pivot" THEN Config(<<"x">>, <<"g">>) ELSE ConfigNoGroupBy(<<"g">>)

\* view.table || view._table || this._view.table || this.parentElement.table
HasTable(v) == v = "pivot"

\* the rows a fetch delivers: tempView.to_json() gives the table's raw
\* rows, view.to_json() the view's own rows
FetchedRows(v, fetched) ==
    CASE fetched = "table" -> TableRows
      [] fetched = "view" -> IF v = "pivot" THEN PivotRows ELSE TableRows
      [] OTHER -> <<>>

NewDraw(v) ==
    [view |-> v, pc |-> "get_config", fetched |-> "", failure |-> "",
     after |-> 0, outcome |-> "", message |-> "", records |-> <<>>]

\* if (!this._container) { create the div; this.appendChild(it) }
createContainer ==
    IF _container = 0
    THEN /\ children' = children + 1
         /\ _container' = children + 1
         /\ innerHTML' = Append(innerHTML, <<>>)
    ELSE UNCHANGED <<children, _container, innerHTML>>

\* draw(view) up to its first await: create and attach a container when
\* this._container is null, then call view.get_config()
draw ==
    \E v \in Views :
        /\ Len(draws) < MaxDraws
        /\ draws' = Append(draws, NewDraw(v))
        /\ createContainer
        /\ UNCHANGED tempViews
        /\ UNCHANGED pipelineVars
        /\ UNCHANGED statsVars
        /\ UNCHANGED resizes

\* update(view) { return this.draw(view) }   (main plugin only)
update ==
    \E v \in Views :
        /\ build = "main"
        /\ Len(draws) < MaxDraws
        /\ draws' = Append(draws, NewDraw(v))
        /\ createContainer
        /\ UNCHANGED tempViews
        /\ UNCHANGED pipelineVars
        /\ UNCHANGED statsVars
        /\ UNCHANGED resizes

\* clear()   (main plugin only)
clear ==
    /\ build = "main"
    /\ IF _container # 0
       THEN innerHTML' = [innerHTML EXCEPT ![_container] = <<>>]
       ELSE UNCHANGED innerHTML
    /\ UNCHANGED <<draws, _container, children, tempViews>>
    /\ UNCHANGED pipelineVars
    /\ UNCHANGED statsVars
    /\ UNCHANGED resizes

\* delete()   (main plugin only): the container is emptied and forgotten,
\* but stays a child of the element
delete ==
    /\ build = "main"
    /\ IF _container # 0
       THEN innerHTML' = [innerHTML EXCEPT ![_container] = <<>>]
       ELSE UNCHANGED innerHTML
    /\ _container' = 0
    /\ UNCHANGED <<draws, children, tempViews>>
    /\ UNCHANGED pipelineVars
    /\ UNCHANGED statsVars
    /\ UNCHANGED resizes

\* Variant: the chart is appended to what the container holds.
renderInto_noClear(held, item) ==
    Append(held, item)

\* this._view: the constructor does not set it, delete() sets it to null,
\* and nothing assigns a view to it
_view == Null

\* resize() { if (this._view) return this.draw(this._view) }   (main plugin
\* only), called by the host once the draws issued so far have returned
resize ==
    /\ build = "main"
    /\ resizes < MaxResizes
    /\ Len(draws) > 0
    /\ \A d \in DOMAIN draws : draws[d].pc = "settled"
    /\ resizes' = resizes + 1
    /\ IF ToBoolean(_view)
       THEN /\ Len(draws) < MaxDraws
            /\ draws' = Append(draws, NewDraw(_view.s))
            /\ createContainer
       ELSE UNCHANGED <<draws, _container, children, innerHTML>>
    /\ UNCHANGED tempViews
    /\ UNCHANGED pipelineVars
    /\ UNCHANGED statsVars

\* what the container holds after a render: it is cleared first, then the
\* chart or the message is put in
renderInto(held, item) ==
    <<item>>

\* the records either build computes from a view's schema and config and
\* the fetched rows
producedFrom(v, fetchedRows) ==
    LET classified == react_decisionOf(fetchedRows, ViewConfig(v), ViewSchema(v))
    IN  IF build = "main"
        THEN processedDataOf(fetchedRows, ViewConfig(v), ViewSchema(v)).result
        ELSE IF classified.message # "" THEN <<>>
        ELSE boxplotDataOf(fetchedRows, classified.decision.groupByColumn,
                           classified.decision.metricColumns)

\* Variant: the result array outlives the draw and is appended to.
recordsOf_accumulated(d, fetchedRows) ==
    IF d > 1
    THEN draws[d - 1].records \o producedFrom(draws[d].view, fetchedRows)
    ELSE producedFrom(draws[d].view, fetchedRows)

\* the records draw d computes from the rows it fetched: `const result = []`
\* is local to the call
recordsOf(d, fetchedRows) ==
    producedFrom(draws[d].view, fetchedRows)

\* what draw d puts in the container for those rows
shownFor(d, fetchedRows) ==
    LET v == draws[d].view
        classified == react_decisionOf(fetchedRows, ViewConfig(v), ViewSchema(v))
    IN  IF build = "main" THEN renderedOf(recordsOf(d, fetchedRows))
        ELSE IF classified.message # "" THEN classified.message
        ELSE react_renderedOf(recordsOf(d, fetchedRows))

\* draw d returns
Settle(d, fetched, failed, outcome, message, records) ==
    [draws EXCEPT ![d] = [@ EXCEPT !.pc = "settled", !.fetched = fetched,
                                   !.failure = IF @ = "" THEN failed ELSE @,
                                   !.outcome = outcome, !.message = message,
                                   !.records = records]]

\* The rows have arrived: draw d renders into this._container, whichever
\* container that is by now.  With this._container null the first
\* statement of _renderBoxplot throws a TypeError, and so does the catch
\* block of draw: the draw's promise rejects.
Render(d, fetched) ==
    LET fetchedRows == FetchedRows(draws[d].view, fetched)
        shown == shownFor(d, fetchedRows)
    IN  IF _container = 0
        THEN /\ draws' = Settle(d, fetched, "", "rejected", "TypeError", <<>>)
             /\ UNCHANGED innerHTML
        ELSE /\ draws' = Settle(d, fetched, "",
                                IF shown = Chart THEN "chart" ELSE "message",
                                shown, recordsOf(d, fetchedRows))
             /\ innerHTML' = [innerHTML EXCEPT ![_container] =
                    renderInto(@, [draw |-> d, kind |-> IF shown = Chart
                                                        THEN "chart" ELSE "message",
                                   message |-> shown])]

\* catch (error) of draw: the container shows the error's message;
\* failed names the row fetch that rejected, if it was one
Catch(d, message, failed) ==
    IF _container = 0
    THEN /\ draws' = Settle(d, draws[d].fetched, failed, "rejected", "TypeError", <<>>)
         /\ UNCHANGED innerHTML
    ELSE /\ draws' = Settle(d, draws[d].fetched, failed, "error", message, <<>>)
         /\ innerHTML' = [innerHTML EXCEPT ![_container] =
                <<[draw |-> d, kind |-> "error", message |-> message]>>]

At(d, position) == d \in DOMAIN draws /\ draws[d].pc = position

\* draw d moves on to its next await; a fetch issued after one has failed
\* is counted
Goto(d, position, failed) ==
    [draws EXCEPT ![d] = [@ EXCEPT
        !.pc = position,
        !.failure = IF @ = "" THEN failed ELSE @,
        !.after = IF failed # "" \/ draws[d].failure # "" THEN @ + 1 ELSE @]]

Unchanged_DOM == UNCHANGED <<_container, children, innerHTML, tempViews>>

\* const config = await view.get_config()
get_config_resolved ==
    \E d \in DOMAIN draws :
        /\ At(d, "get_config")
        /\ draws' = Goto(d, "schema", "")
        /\ Unchanged_DOM
        /\ UNCHANGED pipelineVars
        /\ UNCHANGED statsVars
        /\ UNCHANGED resizes

get_config_rejected ==
    \E d \in DOMAIN draws :
        /\ At(d, "get_config")
        /\ Catch(d, "get_config", "")
        /\ UNCHANGED <<_container, children, tempViews>>
        /\ UNCHANGED pipelineVars
        /\ UNCHANGED statsVars
        /\ UNCHANGED resizes

\* const schema = await view.schema(), then on to the row fetch: the main
\* plugin asks the table for a raw view when it finds the table, and the
\* view for its rows otherwise; the React build always asks the view
schema_resolved ==
    \E d \in DOMAIN draws :
        /\ At(d, "schema")
        /\ draws' = Goto(d, IF build = "main" /\ HasTable(draws[d].view)
                            THEN "table_view" ELSE "view_to_json", "")
        /\ Unchanged_DOM
        /\ UNCHANGED pipelineVars
        /\ UNCHANGED statsVars
        /\ UNCHANGED resizes

schema_rejected ==
    \E d \in DOMAIN draws :
        /\ At(d, "schema")
        /\ Catch(d, "schema", "")
        /\ UNCHANGED <<_container, children, tempViews>>
        /\ UNCHANGED pipelineVars
        /\ UNCHANGED statsVars
        /\ UNCHANGED resizes

\* const tempView = await table.view(rawConfig)
table_view_resolved ==
    \E d \in DOMAIN draws :
        /\ At(d, "table_view")
        /\ draws' = Goto(d, "tempView_to_json", "")
        /\ tempViews' = tempViews + 1
        /\ UNCHANGED <<_container, children, innerHTML>>
        /\ UNCHANGED pipelineVars
        /\ UNCHANGED statsVars
        /\ UNCHANGED resizes

\* a failure inside the try of _getRawDataForBoxplot is caught there, and
\* the catch block asks the view for its rows
table_view_rejected ==
    \E d \in DOMAIN draws :
        /\ At(d, "table_view")
        /\ draws' = Goto(d, "fallback", "table_view")
        /\ Unchanged_DOM
        /\ UNCHANGED pipelineVars
        /\ UNCHANGED statsVars
        /\ UNCHANGED resizes

\* const rawData = await tempView.to_json()
tempView_to_json_resolved ==
    \E d \in DOMAIN draws :
        /\ At(d, "tempView_to_json")
        /\ draws' = Goto(d, "tempView_delete", "")
        /\ Unchanged_DOM
        /\ UNCHANGED pipelineVars
        /\ UNCHANGED statsVars
        /\ UNCHANGED resizes

tempView_to_json_rejected ==
    \E d \in DOMAIN draws :
        /\ At(d, "tempView_to_json")
        /\ draws' = Goto(d, "fallback", "tempView_to_json")
        /\ Unchanged_DOM
        /\ UNCHANGED pipelineVars
        /\ UNCHANGED statsVars
        /\ UNCHANGED resizes

\* await tempView.delete(); return rawData; and draw renders
tempView_delete_resolved ==
    \E d \in DOMAIN draws :
        /\ At(d, "tempView_delete")
        /\ tempViews' = tempViews - 1
        /\ Render(d, "table")
        /\ UNCHANGED <<_container, children>>
        /\ UNCHANGED pipelineVars
        /\ UNCHANGED statsVars
        /\ UNCHANGED resizes

\* a failure of the clean-up is caught like any other in the try; the
\* temporary view is taken to be still there
tempView_delete_rejected ==
    \E d \in DOMAIN draws :
        /\ At(d, "tempView_delete")
        /\ draws' = Goto(d, "fallback", "")
        /\ Unchanged_DOM
        /\ UNCHANGED pipelineVars
        /\ UNCHANGED statsVars
        /\ UNCHANGED resizes

\* view.to_json() resolves, at line 84 or in the catch block at line 111
\* (main plugin) or in draw (React build); draw renders
view_to_json_resolved ==
    \E d \in DOMAIN draws :
        /\ At(d, "view_to_json") \/ At(d, "fallback")
        /\ Render(d, "view")
        /\ UNCHANGED <<_container, children, tempViews>>
        /\ UNCHANGED pipelineVars
        /\ UNCHANGED statsVars
        /\ UNCHANGED resizes

\* view.to_json() rejects: at line 84 that is inside the try, so the catch
\* block asks again; from the catch block, and in the React build, the
\* error reaches the catch of draw
view_to_json_rejected ==
    \E d \in DOMAIN draws :
        /\ At(d, "view_to_json") \/ At(d, "fallback")
        /\ IF build = "main" /\ At(d, "view_to_json")
           THEN /\ draws' = Goto(d, "fallback", "view_to_json")
                /\ UNCHANGED innerHTML
           ELSE Catch(d, "view_to_json", "view_to_json")
        /\ UNCHANGED <<_container, children, tempViews>>
        /\ UNCHANGED pipelineVars
        /\ UNCHANGED statsVars
        /\ UNCHANGED resizes

DrawInit ==
    /\ build \in {"main", "react"}
    /\ schema = PlainSchema
    /\ config = Config(<<>>, <<>>)
    /\ rows = <<>>
    /\ pc = "done"
    /\ decision = NoDecision
    /\ result = <<>>
    /\ container = ""
    /\ Constructed
    /\ NotCalculated

DrawNext ==
    \/ draw
    \/ update
    \/ clear
    \/ delete
    \/ resize
    \/ get_config_resolved
    \/ get_config_rejected
    \/ schema_resolved
    \/ schema_rejected
    \/ table_view_resolved
    \/ table_view_rejected
    \/ tempView_to_json_resolved
    \/ tempView_to_json_rejected
    \/ tempView_delete_resolved
    \/ tempView_delete_rejected
    \/ view_to_json_resolved
    \/ view_to_json_rejected

DrawSpec == DrawInit /\ [][DrawNext]_vars

DrawTypeOK ==
    /\ Len(draws) <= MaxDraws
    /\ _container \in 0 .. children
    /\ Len(innerHTML) = children
    /\ tempViews \in 0 .. MaxDraws

(***************************************************************************)
(* The statistics functions on their own.  Each build's function is called *)
(* on the same non-empty sequence of numbers, in any order of the two      *)
(* calls; the sequence need not be sorted, both functions sort a copy.     *)
(***************************************************************************)
Samples == SeqsUpTo(-MaxVal .. MaxVal, MaxCell) \ {<<>>}

StatsInit ==
    /\ build = "main"
    /\ schema = PlainSchema
    /\ config = Config(<<>>, <<>>)
    /\ rows = <<>>
    /\ pc = "done"
    /\ decision = NoDecision
    /\ result = <<>>
    /\ container = ""
    /\ Constructed
    /\ sample \in Samples
    /\ computed = [main |-> NoStats, react |-> NoStats]

\* this._calculateBoxplotStats(values)   (main plugin)
main_calculateBoxplotStats ==
    /\ computed.main = NoStats
    /\ computed' = [computed EXCEPT !.main = _calculateBoxplotStats(sample)]
    /\ UNCHANGED sample
    /\ UNCHANGED pipelineVars
    /\ UNCHANGED lifecycleVars

\* this.calculateBoxplotStats(values)   (React build)
react_calculateBoxplotStats ==
    /\ computed.react = NoStats
    /\ computed' = [computed EXCEPT !.react = calculateBoxplotStats(sample)]
    /\ UNCHANGED sample
    /\ UNCHANGED pipelineVars
    /\ UNCHANGED lifecycleVars

StatsNext ==
    \/ main_calculateBoxplotStats
    \/ react_calculateBoxplotStats

StatsSpec == StatsInit /\ [][StatsNext]_vars

(***************************************************************************)
(* Vocabulary of the properties.                                           *)
(***************************************************************************)
Records == {result[i] : i \in 1 .. Len(result)}

\* the classifier has resolved a grouping strategy in this draw
Resolved == decision.strategy # 0

\* a grouping column is in use
Grouped == Resolved /\ ToBoolean(decision.groupByColumn)

IsNumericType(t) == t \in {"integer", "float"}
IsCategoricalType(t) == t \in {"string", "date"}

\* v is strictly outside [q1 - 1.5*iqr, q3 + 1.5*iqr]; q1, q3 in eighths
Outside(v, q1, q3) ==
    \/ 16 * v < 2 * q1 - 3 * (q3 - q1)
    \/ 16 * v > 2 * q3 + 3 * (q3 - q1)

\* the key under which the running build files a row
BuildKey(row) ==
    IF build = "main" THEN groupKeyOf(row, decision.groupByColumn.s)
    ELSE react_groupKeyOf(row, decision.groupByColumn.s)

\* the rows of the partition a record belongs to
PartitionOf(r) ==
    IF Grouped THEN SelectSeq(rows, LAMBDA row : BuildKey(row) = r.groupKey)
    ELSE rows

FiniteCoercible(v) == ToNumber(v).t = "number"

FiniteValues(rs, metric) ==
    LET kept == SelectSeq(rs, LAMBDA row : FiniteCoercible(Field(row, metric)))
    IN  SortAscending([i \in 1 .. Len(kept) |-> ToNumber(Field(kept[i], metric)).n])

(***************************************************************************)
(* C1.  Whenever config.group_by is non-empty, the grouping column is      *)
(* config.group_by[0], whatever the schema and config.columns are, and     *)
(* every record's group key is taken from that column: it is the column's  *)
(* value in some row (or the stand-in "Unknown" for a row whose value is   *)
(* falsy).                                                                 *)
(***************************************************************************)
C1_GroupByWins ==
    (hasGroupBy(config) /\ Resolved) =>
        /\ decision.groupByColumn = Str(config.group_by[1])
        /\ decision.strategy = 1
        /\ \A r \in Records :
              \E i \in 1 .. Len(rows) :
                 LET v == Field(rows[i], config.group_by[1])
                 IN  \/ r.groupKey = v
                     \/ r.groupKey = Str("Unknown") /\ ~ToBoolean(v)

\* group_by names a numeric column while two categorical columns are listed,
\* and the records are keyed by the numeric column's values
C1_Witness ==
    /\ pc = "done"
    /\ hasGroupBy(config)
    /\ Len(decision.categoricalColumns) >= 2
    /\ SchemaType(schema, config.group_by[1]) = "float"
    /\ Len(result) > 0
    /\ \A r \in Records : r.groupKey \in {Num(1), Num(2)}

(***************************************************************************)
(* C2.  A row whose metric field is missing, null, a non-numeric string or *)
(* otherwise non-finite contributes nothing to its cell; every other row   *)
(* of the partition contributes its coerced number.                        *)
(***************************************************************************)
C2_ClaimedRetained(v) == v.t \notin {"undefined", "null"} /\ FiniteCoercible(v)

C2_DropsMissingNullNonNumeric ==
    \A r \in Records :
        LET kept == SelectSeq(PartitionOf(r),
                              LAMBDA row : C2_ClaimedRetained(Field(row, r.metric)))
        IN  r.values =
              SortAscending([i \in 1 .. Len(kept) |->
                                ToNumber(Field(kept[i], r.metric)).n])

(***************************************************************************)
(* C3.  min and max are the smallest and largest retained value inside the *)
(* fences whenever there is one (0 included), so neither is an outlier;    *)
(* only when no value is inside the fences are they the absolute extremes. *)
(***************************************************************************)
C3_WhiskersInsideFences ==
    \A r \in Records :
        LET inside == SelectSeq(r.values,
                                LAMBDA v : ~Outside(v, r.stats.q1, r.stats.q3))
        IN  IF Len(inside) > 0
            THEN /\ r.stats.min = 8 * inside[1]
                 /\ r.stats.max = 8 * inside[Len(inside)]
                 /\ \A k \in 1 .. Len(r.stats.outliers) :
                       /\ 8 * r.stats.outliers[k] # r.stats.min
                       /\ 8 * r.stats.outliers[k] # r.stats.max
            ELSE /\ r.stats.min = 8 * r.values[1]
                 /\ r.stats.max = 8 * r.values[Len(r.values)]

(***************************************************************************)
(* C4.  Every stats record satisfies min <= q1 <= median <= q3 <= max.     *)
(***************************************************************************)
C4_QuantileMonotonicity ==
    \A r \in Records :
        /\ r.stats.min <= r.stats.q1
        /\ r.stats.q1 <= r.stats.median
        /\ r.stats.median <= r.stats.q3
        /\ r.stats.q3 <= r.stats.max

(***************************************************************************)
(* C5.  In every record, outliers is exactly the retained values strictly  *)
(* below q1 - 1.5*iqr or strictly above q3 + 1.5*iqr, with multiplicity; a *)
(* value equal to a fence is not an outlier.                               *)
(***************************************************************************)
C5_OutliersExact ==
    \A r \in Records :
        r.stats.outliers =
            SelectSeq(r.values, LAMBDA v : Outside(v, r.stats.q1, r.stats.q3))

\* a cell with an outlier and with a value that sits exactly on a fence
C5_Witness ==
    /\ pc = "done"
    /\ \E r \in Records :
          /\ Len(r.stats.outliers) > 0
          /\ \E k \in 1 .. Len(r.values) :
                /\ 16 * r.values[k] = 2 * r.stats.q1 - 3 * (r.stats.q3 - r.stats.q1)
                /\ \A j \in 1 .. Len(r.stats.outliers) :
                      r.stats.outliers[j] # r.values[k]

(***************************************************************************)
(* C6.  For every metric column, the values of all records of that metric, *)
(* with multiplicity, are exactly the finite-coercible values of the       *)
(* column over all rows.                                                   *)
(***************************************************************************)
RECURSIVE ValuesOfMetric(_, _)
ValuesOfMetric(recs, metric) ==
    IF recs = <<>> THEN <<>>
    ELSE (IF Head(recs).metric = metric THEN Head(recs).values ELSE <<>>)
         \o ValuesOfMetric(Tail(recs), metric)

C6_PartitionCoverage ==
    pc \in {"processed", "done"} =>
        \A k \in 1 .. Len(decision.metricColumns) :
            LET metric == decision.metricColumns[k]
            IN  SortAscending(ValuesOfMetric(result, metric))
                    = FiniteValues(rows, metric)

(***************************************************************************)
(* C7.  With a grouping column, rows share a partition exactly when the    *)
(* string forms of their grouping values are equal; every groupKey is a    *)
(* string; a missing or null value is keyed "Unknown", and a present value *)
(* (0, false, "") keeps its own string form.                               *)
(***************************************************************************)
C7_ClaimedKey(v) ==
    IF v.t \in {"undefined", "null"} THEN "Unknown" ELSE StringOf(v)

C7_StringKeys ==
    (Grouped /\ pc = "done") =>
        /\ \A r \in Records :
              /\ r.groupKey.t = "string"
              /\ r.values =
                   FiniteValues(
                     SelectSeq(rows,
                        LAMBDA row :
                           C7_ClaimedKey(Field(row, decision.groupByColumn.s))
                              = r.groupKey.s),
                     r.metric)
        /\ \A i \in 1 .. Len(rows) :
              \A k \in 1 .. Len(decision.metricColumns) :
                 FiniteCoercible(Field(rows[i], decision.metricColumns[k])) =>
                    \E r \in Records :
                       /\ r.metric = decision.metricColumns[k]
                       /\ r.groupKey =
                            Str(C7_ClaimedKey(Field(rows[i], decision.groupByColumn.s)))

(***************************************************************************)
(* C8.  A column of config.columns is categorical exactly when its schema  *)
(* type is string or date; a date column alone is picked by the            *)
(* single-categorical rule; boolean, other, unrecognized and absent types  *)
(* are in neither set.                                                     *)
(***************************************************************************)
C8_CategoricalIsStringOrDate ==
    Resolved =>
        /\ decision.categoricalColumns =
             SelectSeq(configColumnsOf(config),
                       LAMBDA col : IsCategoricalType(SchemaType(schema, col)))
        /\ decision.numericColumns =
             SelectSeq(configColumnsOf(config),
                       LAMBDA col : IsNumericType(SchemaType(schema, col)))
        /\ (/\ ~hasGroupBy(config)
            /\ Len(decision.categoricalColumns) = 1
            /\ SchemaType(schema, decision.categoricalColumns[1]) = "date")
           => decision.groupByColumn = Str(decision.categoricalColumns[1])

C10_CategoricalListed ==
    {c \in Cols :
        /\ \E k \in 1 .. Len(configColumnsOf(config)) : configColumnsOf(config)[k] = c
        /\ IsCategoricalType(SchemaType(schema, c))}

C10_SingleCategoricalGroups ==
    (Resolved /\ ~hasGroupBy(config) /\ Cardinality(C10_CategoricalListed) = 1) =>
        /\ decision.groupByColumn = Str(CHOOSE c \in C10_CategoricalListed : TRUE)
        /\ decision.warnings = <<>>

(***************************************************************************)
(* C11.  With group_by absent or empty and more than one categorical       *)
(* column in config.columns, the grouping column is the categorical column *)
(* that comes first in config.columns, a warning is emitted, and the draw  *)
(* goes on: the records are computed and rendered.                         *)
(***************************************************************************)
C11_Categorical ==
    SelectSeq(configColumnsOf(config),
              LAMBDA col : IsCategoricalType(SchemaType(schema, col)))

C11_FirstCategoricalWithWarning ==
    (Resolved /\ ~hasGroupBy(config) /\ Cardinality(C10_CategoricalListed) > 1) =>
        /\ decision.groupByColumn = Str(C11_Categorical[1])
        /\ decision.warnings = <<"Multiple categorical columns">>
        /\ pc = "done" => (Len(result) > 0 /\ container = Chart)

(***************************************************************************)
(* C12.  When no grouping column is resolved, the output has exactly one   *)
(* record per metric column that has a retained value; its groupKey is the *)
(* metric's own name and its values are the retained values of the column  *)
(* over the whole row set.                                                 *)
(***************************************************************************)
C12_MetricsWithValues ==
    SelectSeq(decision.metricColumns, LAMBDA m : Len(FiniteValues(rows, m)) > 0)

C13_HasNumericColumn ==
    \E k \in 1 .. Len(configColumnsOf(config)) :
        IsNumericType(SchemaType(schema, configColumnsOf(config)[k]))

C13_NoNumericDistinctFromNoData ==
    pc = "done" =>
        /\ (Len(rows) > 0 /\ ~C13_HasNumericColumn) =>
              (result = <<>> /\ container = NoNumericMessage)
        /\ (Len(rows) = 0 /\ C13_HasNumericColumn) =>
              (result = <<>> /\ container # NoNumericMessage /\ container # Chart)

(***************************************************************************)
(* C14.  The output lists the partitions in the order in which each        *)
(* grouping value first occurs in rows, the records of one partition are   *)
(* contiguous, and within a partition they follow metricColumns order.     *)
(***************************************************************************)
\* the first row that is filed under key
C14_FirstRow(key) ==
    CHOOSE i \in 1 .. Len(rows) :
        /\ BuildKey(rows[i]) = key
        /\ \A j \in 1 .. i - 1 : BuildKey(rows[j]) # key

\* the metrics of the records keyed key, in output order
C14_MetricsOf(key) ==
    LET recs == SelectSeq(result, LAMBDA r : r.groupKey = key)
    IN  [i \in 1 .. Len(recs) |-> recs[i].metric]

C14_PartitionThenMetricOrder ==
    (pc = "done" /\ Grouped) =>
        /\ \A r \in Records : \E i \in 1 .. Len(rows) : BuildKey(rows[i]) = r.groupKey
        /\ \A i, j \in 1 .. Len(result) :
              i < j => C14_FirstRow(result[i].groupKey)
                          <= C14_FirstRow(result[j].groupKey)
        /\ \A r \in Records :
              C14_MetricsOf(r.groupKey) =
                 SelectSeq(decision.metricColumns,
                           LAMBDA m : Len(FiniteValues(PartitionOf(r), m)) > 0)

\* two partitions, the one met first sorting after the other, two metrics each
C14_Witness ==
    /\ pc = "done"
    /\ Grouped
    /\ Len(decision.metricColumns) = 2
    /\ Len(result) >= 4
    /\ result[1].groupKey = Str("b")
    /\ result[2].groupKey = Str("b")
    /\ result[3].groupKey = Str("a")
    /\ Len(rows) = 3
    /\ Field(rows[3], "g") = Str("b")

(***************************************************************************)
(* C15.  Within one output sequence no two records have the same           *)
(* (groupKey, metric) pair, where the key is taken in the string form      *)
(* under which a record is looked up; also when config.columns names a     *)
(* column twice or grouping values of different type share a string form.  *)
(***************************************************************************)
C15_UniqueCompositeKey ==
    \A i, j \in 1 .. Len(result) :
        (/\ StringOf(result[i].groupKey) = StringOf(result[j].groupKey)
         /\ result[i].metric = result[j].metric) => i = j

AllSettled == \A d \in DOMAIN draws : draws[d].pc = "settled"

\* what the plugin's current container holds
Shown == IF _container = 0 THEN <<>> ELSE innerHTML[_container]

\* draw d has put a chart, a message or an error in the container
HasRendered(d) == draws[d].outcome \in {"chart", "message", "error"}

(***************************************************************************)
(* C16.  Once every draw issued has settled, what the container shows is   *)
(* the output of the draw issued last, in whatever order the draws'        *)
(* awaits completed: no output of an earlier draw is left in it.           *)
(***************************************************************************)
C16_LatestIssuedWins ==
    (Len(draws) >= 2 /\ AllSettled) =>
        \A i \in 1 .. Len(Shown) : Shown[i].draw = Len(draws)

(***************************************************************************)
(* C17.  In every state, under any interleaving of draws, every container  *)
(* holds the output of at most one draw: never two charts, nor a chart     *)
(* next to a message.                                                      *)
(***************************************************************************)
C17_OneOutputPerContainer ==
    \A c \in 1 .. children : Len(innerHTML[c]) <= 1

\* two overlapping draws have both rendered, the one issued first last: the
\* container holds its chart alone
C17_Witness ==
    /\ Len(draws) >= 2
    /\ HasRendered(1) /\ HasRendered(2)
    /\ draws[2].outcome = "message"
    /\ Shown = <<[draw |-> 1, kind |-> "chart", message |-> Chart]>>

(***************************************************************************)
(* C18.  A draw in which a row fetch has failed (table.view, the temporary *)
(* view's to_json, view.to_json) issues no further fetch and ends in the   *)
(* error state that carries the message of that failure.                   *)
(***************************************************************************)
C18_FetchFailureIsTerminal ==
    \A d \in DOMAIN draws :
        draws[d].failure # "" =>
            /\ draws[d].after = 0
            /\ (draws[d].pc = "settled" /\ draws[d].outcome # "rejected") =>
                  /\ draws[d].outcome = "error"
                  /\ draws[d].message = draws[d].failure

\* the schema, config and rows draw d ran the pipeline on
C19_InputsOf(d) ==
    <<ViewSchema(draws[d].view), ViewConfig(draws[d].view),
      FetchedRows(draws[d].view, draws[d].fetched)>>

\* draw d has run the pipeline
C19_HasRun(d) == draws[d].outcome \in {"chart", "message"}

C20_WithEmptyFields(c) == [c EXCEPT !.has = {"columns", "group_by"}]

(***************************************************************************)
(* C20.  For every schema, config and row sequence the pipeline finishes   *)
(* with a record sequence and without an error (no build is left at a      *)
(* position that has no next step), and a config whose columns or group_by *)
(* field is absent gives the same decision, records and rendering as the   *)
(* same config with that field set to the empty sequence.                  *)
(***************************************************************************)
C20_AbsentFieldsAsEmpty ==
    /\ pc = "processed" => build = "main"
    /\ pc = "classified" => build = "react"
    /\ (pc = "done" /\ config.has # {"columns", "group_by"}) =>
          /\ container \in {Chart, NoDataMessage, NoNumericMessage, NoValidMessage}
          /\ IF build = "main"
             THEN LET full == processedDataOf(rows, C20_WithEmptyFields(config), schema)
                  IN  /\ decision = full.decision
                      /\ result = full.result
                      /\ container = renderedOf(full.result)
             ELSE LET full == react_decisionOf(rows, C20_WithEmptyFields(config), schema)
                      data == boxplotDataOf(rows, full.decision.groupByColumn,
                                            full.decision.metricColumns)
                  IN  /\ decision = full.decision
                      /\ IF full.message # ""
                         THEN result = <<>> /\ container = full.message
                         ELSE result = data /\ container = react_renderedOf(data)

\* a config with no group_by field that ends in a chart
C20_Witness ==
    /\ pc = "done"
    /\ config.has = {"columns"}
    /\ Len(rows) > 0
    /\ Len(result) > 0
    /\ container = Chart

\* the statistics records computed so far from sample
Calculated == {computed[b] : b \in {"main", "react"}} \ {NoStats}

\* sample in ascending order: v[0..n-1] of the claims is Ascending[1..n]
Ascending == SortAscending(sample)

\* 8 times the value interpolated at rank k/4 * (n-1) of the ascending v
C21_Interpolated(v, k) ==
    LET n == Len(v)
        floor == ((n - 1) * k) \div 4
        fraction4 == (n - 1) * k - 4 * floor
        ceil == IF fraction4 = 0 THEN floor ELSE floor + 1
    IN  8 * v[floor + 1] + 2 * fraction4 * (v[ceil + 1] - v[floor + 1])

(***************************************************************************)
(* C21.  For every non-empty ascending sequence v, q1, median and q3 are   *)
(* the values interpolated linearly at rank f*(n-1) for f = 1/4, 1/2, 3/4: *)
(* v[floor(r)] + (r - floor(r)) * (v[ceil(r)] - v[floor(r)]); [10,20]      *)
(* gives 12.5, 15 and 17.5.                                                *)
(***************************************************************************)
C21_QuartilesInterpolate ==
    /\ \A st \in Calculated :
          /\ st.q1 = C21_Interpolated(Ascending, 1)
          /\ st.median = C21_Interpolated(Ascending, 2)
          /\ st.q3 = C21_Interpolated(Ascending, 3)
    /\ _calculateBoxplotStats(<<10, 20>>).q1 = 100
    /\ _calculateBoxplotStats(<<10, 20>>).median = 120
    /\ calculateBoxplotStats(<<10, 20>>).q3 = 140

\* both builds have computed the quartiles of two distinct values handed
\* over in descending order: q1 and q3 fall between them
C21_Witness ==
    /\ sample = <<2, 1>>
    /\ computed.main.q1 = 10 /\ computed.main.q3 = 14
    /\ computed.react.q1 = 10 /\ computed.react.median = 12

C23_Partitions ==
    IF Grouped
    THEN {[key |-> BuildKey(rows[i]),
           rows |-> SelectSeq(rows, LAMBDA row : BuildKey(row) = BuildKey(rows[i]))]
            : i \in 1 .. Len(rows)}
    ELSE {}

\* the cell of partition p and metric m holds a value that is to be retained
C23_HasRetained(partition, m) ==
    \E i \in 1 .. Len(partition) : C2_ClaimedRetained(Field(partition[i], m))

(***************************************************************************)
(* C23.  A (partition, metric) cell has a record exactly when one of its   *)
(* values is retained (a present, non-null value that coerces to a finite  *)
(* number); every record's stats.count is at least 1 and is the length of  *)
(* its values; a cell without a retained value has no record.              *)
(***************************************************************************)
C23_RecordIffRetainedValue ==
    (pc = "done" /\ Resolved) =>
        /\ \A r \in Records :
              r.stats.count >= 1 /\ r.stats.count = Len(r.values)
        /\ \A k \in 1 .. Len(decision.metricColumns) :
              LET m == decision.metricColumns[k]
              IN  IF Grouped
                  THEN \A p \in C23_Partitions :
                          (\E r \in Records : r.metric = m /\ r.groupKey = p.key)
                              <=> C23_HasRetained(p.rows, m)
                  ELSE (\E r \in Records : r.metric = m)
                              <=> C23_HasRetained(rows, m)

(***************************************************************************)
(* C24.  Each host trigger starts one run of the pipeline and a render     *)
(* from its result: a call of draw(view) or update(view), and also a call  *)
(* of resize() made after a draw has completed.  As a step property: a     *)
(* step that is a resize() call starts one draw, as a draw or update call  *)
(* does.                                                                   *)
(***************************************************************************)
C24_ResizeRedraws ==
    [][(resizes' = resizes + 1 /\ \E d \in DOMAIN draws : C19_HasRun(d)) =>
          /\ Len(draws') = Len(draws) + 1
          /\ draws'[Len(draws')].pc = "get_config"]_vars

\* xs is in ascending order
C25_IsAscending(xs) == \A i \in 1 .. Len(xs) - 1 : xs[i] <= xs[i + 1]

(***************************************************************************)
(* C25.  Every record's value sequence is in ascending order; computing    *)
(* the statistics and rendering leave the records' value sequences as they *)
(* were created, and no step changes the input rows.                       *)
(***************************************************************************)
C25_ValuesAscendingAndKept ==
    /\ [](\A r \in Records : C25_IsAscending(r.values))
    /\ [][/\ rows' = rows
          /\ pc = "processed" =>
                [i \in 1 .. Len(result') |-> result'[i].values]
                    = [i \in 1 .. Len(result) |-> result[i].values]]_vars

\* a rendered record of three values that the rows hold in descending order
C25_Witness ==
    /\ pc = "done"
    /\ Len(rows) = 3
    /\ Field(rows[1], "x") = Num(2)
    /\ Field(rows[2], "x") = Num(1)
    /\ Field(rows[3], "x") = Num(0)
    /\ \E r \in Records : r.values = <<0, 1, 2>>

(***************************************************************************)
(* C26.  A temporary raw view made with table.view is deleted before its   *)
(* draw settles, on every path: once every draw has settled no temporary   *)
(* view is left, also when the temporary view's to_json failed and the     *)
(* draw fell back to view.to_json.                                         *)
(***************************************************************************)
C26_TempViewDeleted ==
    AllSettled => tempViews = 0

(***************************************************************************)
(* C27.  A draw that resumes after delete() has run still settles without  *)
(* an uncaught error: no draw's promise rejects, and the plugin stays      *)
(* deleted, with _container null.                                          *)
(***************************************************************************)
C27_DrawSurvivesDelete ==
    \A d \in DOMAIN draws : draws[d].outcome # "rejected"

(***************************************************************************)
(* C28.  After any sequence of draw, update, clear and delete calls the    *)
(* plugin element has at most one container child, and a non-null          *)
(* _container is that child: a draw after delete() leaves no earlier       *)
(* container attached next to the new one.                                 *)
(***************************************************************************)
C28_OneContainerChild ==
    /\ children <= 1
    /\ _container # 0 => _container = children

(***************************************************************************)
(* C29.  For every non-empty sequence of finite numbers the statistics     *)
(* function of the main plugin and that of the React build return the same *)
(* count, min, q1, median, q3, max, mean and outliers.                     *)
(***************************************************************************)
C29_BuildsAgree ==
    (computed.main # NoStats /\ computed.react # NoStats) =>
        /\ computed.main.count = computed.react.count
        /\ computed.main.min = computed.react.min
        /\ computed.main.q1 = computed.react.q1
        /\ computed.main.median = computed.react.median
        /\ computed.main.q3 = computed.react.q3
        /\ computed.main.max = computed.react.max
        /\ computed.main.meanSum = computed.react.meanSum
        /\ computed.main.outliers = computed.react.outliers

(***************************************************************************)
(* C30.  For every non-empty sequence of finite values at least one value  *)
(* lies inside [q1 - 1.5*iqr, q3 + 1.5*iqr]: outliers never holds every    *)
(* value, and the set of non-outliers from which min and max are taken is  *)
(* never empty.                                                            *)
(***************************************************************************)
C30_SomeValueInsideFences ==
    \A st \in Calculated :
        /\ \E i \in 1 .. Len(sample) : ~Outside(sample[i], st.q1, st.q3)
        /\ Len(st.outliers) < st.count
        /\ nonOutliersOf(Ascending, lowerFenceOf(st.q1, st.q3),
                         upperFenceOf(st.q1, st.q3)) # <<>>

\* both fences collapse onto the median and both extremes are outliers
C30_Witness ==
    /\ sample = <<-2, 0, 0, 0, 2>>
    /\ computed.main.outliers = <<-2, 2>>
    /\ computed.react.outliers = <<-2, 2>>
    /\ computed.react.min = 0
====
